---- MODULE Spec2Model ----
(***************************************************************************)
(* Run-detail view of the Sentric dashboard                                *)
(* (dashboard/frontend/src/app/(dashboard)/projects/[projectId]/runs/[id]/ *)
(* page.tsx): the Run Client (REST fetch, 2 s poll, WebSocket stream,      *)
(* React effects), the Step Reconstructor groupEventsByStep and the replay *)
(* controls of the timeline.                                               *)
(***************************************************************************)
EXTENDS Integers, Sequences, FiniteSets, TLC

(***************************************************************************)
(* Bounds of the model.                                                    *)
(***************************************************************************)
\* longest event list handed to groupEventsByStep in SpecGroup
MaxEvents == 2
\* largest payload.step_number
MaxStep == 1
\* largest video_timestamp (seconds)
MaxVideoTs == 1
\* events the backend ingests for the run
MaxBackendEvents == 1
\* REST requests of fetchRun that may be outstanding at once
MaxInflight == 2
\* frames that are not Events queued on the socket, and events held when one is queued
MaxQueue == 1
MaxHeld == 1
\* largest video offset handed to getLaminarUrl, in hundredths of a second
MaxCenti == 40
\* API keys the backend creates, and requests of the API-keys page outstanding at once
MaxKeys == 2
MaxKeyRequests == 1
\* submissions of the demo form
MaxSubmits == 2
MaxProjects == 2

(***************************************************************************)
(* JavaScript values.  An absent optional field reads as undefined; JSON   *)
(* null travels as Null.  `x || y` and `x && ...` test truthiness.         *)
(***************************************************************************)
Undef == "undefined"
Null == "null"
UndefNum == -1

TruthyStr(s) == s # Undef /\ s # Null /\ s # ""
TruthyNum(n) == n # UndefNum /\ n # 0
OrNum(a, b) == IF TruthyNum(a) THEN a ELSE b
OrStr(a, b) == IF TruthyStr(a) THEN a ELSE b

(***************************************************************************)
(* Event model (interface Event).  id is the position of the event in the  *)
(* backend's list; it is not a field the client reads.  json tells what    *)
(* JSON value the record stands for: "event" is an object with a payload   *)
(* object, "no_payload" a value whose .payload reads undefined (an object  *)
(* without payload, a number, a string), "null" the JSON null.             *)
(***************************************************************************)
EventTypes == {"action", "reasoning", "step_start", "step_reasoning"}
StepNums == {UndefNum} \cup (0..MaxStep)
VideoTss == {UndefNum} \cup (0..MaxVideoTs)

Payload(sn, ev, mem, goal, content) ==
    [step_number |-> sn, evaluation |-> ev, memory |-> mem,
     next_goal |-> goal, content |-> content]

Event(type, payload, vt) ==
    [type |-> type, payload |-> payload, timestamp |-> 1,
     video_timestamp |-> vt, id |-> 0, json |-> "event"]

StepStartEvents ==
    {Event("step_start", Payload(sn, Undef, Undef, Undef, Undef), vt) :
        sn \in StepNums, vt \in VideoTss}
ReasoningFields ==
    {<<Undef, Undef, Undef>>, <<"e1", Undef, Undef>>,
     <<Undef, "m1", "g1">>, <<"e2", "m2", Undef>>}
StepReasoningEvents ==
    {Event("step_reasoning", Payload(sn, f[1], f[2], f[3], Undef), vt) :
        sn \in StepNums, f \in ReasoningFields, vt \in {UndefNum, MaxVideoTs}}
ActionEvents ==
    {Event("action", Payload(sn, Undef, Undef, Undef, Undef), vt) :
        sn \in StepNums, vt \in VideoTss}
LegacyEvents ==
    {Event("reasoning", Payload(UndefNum, Undef, Undef, Undef, c), vt) :
        c \in {Undef, "", "c1"}, vt \in {UndefNum, 0}}
Events == StepStartEvents \cup StepReasoningEvents \cup ActionEvents \cup LegacyEvents

\* values JSON.parse accepts and ws.onmessage appends that are no Event:
\* {"type": "action"}, {"type": "step_reasoning"}, {} or 42, null
NoPayload == Payload(UndefNum, Undef, Undef, Undef, Undef)
MalformedEvents ==
    {[Event("action", NoPayload, UndefNum) EXCEPT !.json = "no_payload"],
     [Event("step_reasoning", NoPayload, UndefNum) EXCEPT !.json = "no_payload"],
     [Event(Undef, NoPayload, UndefNum) EXCEPT !.json = "no_payload"],
     [Event(Undef, NoPayload, UndefNum) EXCEPT !.json = "null"]}

\* the event lists of length n, each event stamped with its position
RECURSIVE EventLists(_)
EventLists(n) ==
    IF n = 0 THEN {<<>>}
    ELSE {Append(s, [e EXCEPT !.id = n, !.timestamp = n]) :
            s \in EventLists(n - 1), e \in Events \cup MalformedEvents}

(***************************************************************************)
(* Step Reconstructor: groupEventsByStep.                                  *)
(* steps is the Map<number, StepGroup> in insertion order.                 *)
(***************************************************************************)
NoReasoning ==
    [present |-> FALSE, evaluation |-> Undef, memory |-> Undef, next_goal |-> Undef]

newStepGroup(stepNum, event) ==
    [stepNumber |-> stepNum, reasoning |-> NoReasoning, actions |-> <<>>,
     timestamp |-> event.timestamp, videoTimestamp |-> event.video_timestamp]

stepsHas(steps, n) == \E i \in 1..Len(steps) : steps[i].stepNumber = n
stepsIdx(steps, n) == CHOOSE i \in 1..Len(steps) : steps[i].stepNumber = n
stepsEnsure(steps, n, event) ==
    IF stepsHas(steps, n) THEN steps ELSE Append(steps, newStepGroup(n, event))

backfillVideoTimestamp_Overwrite(step, event) ==
    IF event.video_timestamp # UndefNum
    THEN [step EXCEPT !.videoTimestamp = event.video_timestamp]
    ELSE step

\* if (event.video_timestamp !== undefined && step.videoTimestamp === undefined)
backfillVideoTimestamp(step, event) ==
    IF event.video_timestamp # UndefNum /\ step.videoTimestamp = UndefNum
    THEN [step EXCEPT !.videoTimestamp = event.video_timestamp]
    ELSE step

\* step number resolved for an event, given the running currentStep
resolveStepNum(event, currentStep) ==
    IF event.type = "step_start" THEN OrNum(event.payload.step_number, 0)
    ELSE IF event.type \in {"step_reasoning", "action"}
         THEN OrNum(event.payload.step_number, currentStep)
         ELSE currentStep

setReasoning_Merge(step, payload) ==
    LET keep(old, new) == IF new # Undef THEN new ELSE old
    IN  [step EXCEPT !.reasoning =
            [present |-> TRUE,
             evaluation |-> keep(step.reasoning.evaluation, payload.evaluation),
             memory |-> keep(step.reasoning.memory, payload.memory),
             next_goal |-> keep(step.reasoning.next_goal, payload.next_goal)]]

\* step.reasoning = {evaluation, memory, next_goal} of the payload
setReasoning(step, payload) ==
    [step EXCEPT !.reasoning =
        [present |-> TRUE, evaluation |-> payload.evaluation,
         memory |-> payload.memory, next_goal |-> payload.next_goal]]

setLegacyMemory_Overwrite(step, payload) ==
    LET content == OrStr(payload.content, "")
        r == [step.reasoning EXCEPT !.present = TRUE]
    IN  IF TruthyStr(content)
        THEN [step EXCEPT !.reasoning = [r EXCEPT !.memory = content]]
        ELSE [step EXCEPT !.reasoning = r]

\* legacy branch: reasoning ||= {}; memory from payload.content if unset
setLegacyMemory(step, payload) ==
    LET content == OrStr(payload.content, "")
        r == [step.reasoning EXCEPT !.present = TRUE]
    IN  IF TruthyStr(content) /\ ~TruthyStr(r.memory)
        THEN [step EXCEPT !.reasoning = [r EXCEPT !.memory = content]]
        ELSE [step EXCEPT !.reasoning = r]

pushAction_Prepend(step, event) == [step EXCEPT !.actions = <<event>> \o @]

\* step.actions.push(event)
pushAction(step, event) == [step EXCEPT !.actions = Append(@, event)]

\* the loop body raises a TypeError: event.type of null, or
\* event.payload.step_number / event.payload.content of undefined
throws(event) == event.json = "null" \/ event.json = "no_payload"

processEvent_ActionKeepsCurrentStep(acc, event) ==
    LET stepNum == resolveStepNum(event, acc.currentStep)
        ensured == stepsEnsure(acc.steps, stepNum, event)
        i == stepsIdx(ensured, stepNum)
        step == ensured[i]
    IN  IF event.type = "step_start"
        THEN [steps |-> ensured, currentStep |-> stepNum]
        ELSE IF event.type = "step_reasoning"
        THEN LET s1 == setReasoning(step, event.payload)
                 s2 == IF s1.timestamp = 0
                       THEN [s1 EXCEPT !.timestamp = event.timestamp] ELSE s1
             IN  [steps |-> [ensured EXCEPT ![i] = backfillVideoTimestamp(s2, event)],
                  currentStep |-> stepNum]
        ELSE IF event.type = "action"
        THEN LET s1 == pushAction(step, event)
             IN  [steps |-> [ensured EXCEPT ![i] = backfillVideoTimestamp(s1, event)],
                  currentStep |-> acc.currentStep]
        ELSE LET s1 == setLegacyMemory(step, event.payload)
             IN  [steps |-> [ensured EXCEPT ![i] = backfillVideoTimestamp(s1, event)],
                  currentStep |-> acc.currentStep]

\* one iteration of the for loop (that does not raise)
processEvent(acc, event) ==
    LET stepNum == resolveStepNum(event, acc.currentStep)
        ensured == stepsEnsure(acc.steps, stepNum, event)
        i == stepsIdx(ensured, stepNum)
        step == ensured[i]
    IN  IF event.type = "step_start"
        THEN [steps |-> ensured, currentStep |-> stepNum]
        ELSE IF event.type = "step_reasoning"
        THEN LET s1 == setReasoning(step, event.payload)
                 s2 == IF s1.timestamp = 0
                       THEN [s1 EXCEPT !.timestamp = event.timestamp] ELSE s1
             IN  [steps |-> [ensured EXCEPT ![i] = backfillVideoTimestamp(s2, event)],
                  currentStep |-> stepNum]
        ELSE IF event.type = "action"
        THEN LET s1 == pushAction(step, event)
             IN  [steps |-> [ensured EXCEPT ![i] = backfillVideoTimestamp(s1, event)],
                  currentStep |-> stepNum]
        ELSE LET s1 == setLegacyMemory(step, event.payload)
             IN  [steps |-> [ensured EXCEPT ![i] = backfillVideoTimestamp(s1, event)],
                  currentStep |-> acc.currentStep]

\* Array.prototype.sort((a, b) => a.stepNumber - b.stepNumber): stable
RECURSIVE insertSorted(_, _)
insertSorted(sorted, g) ==
    IF sorted = <<>> THEN <<g>>
    ELSE IF sorted[Len(sorted)].stepNumber <= g.stepNumber
         THEN Append(sorted, g)
         ELSE Append(insertSorted(SubSeq(sorted, 1, Len(sorted) - 1), g),
                     sorted[Len(sorted)])

sortByStepNumber_Unsorted(steps) == steps

RECURSIVE sortByStepNumber(_)
sortByStepNumber(steps) ==
    IF steps = <<>> THEN <<>>
    ELSE insertSorted(sortByStepNumber(SubSeq(steps, 1, Len(steps) - 1)),
                      steps[Len(steps)])

EmptyAcc_SeedOne == [steps |-> <<>>, currentStep |-> 1]

EmptyAcc_SeedGroup ==
    [steps |-> <<[stepNumber |-> 0, reasoning |-> NoReasoning, actions |-> <<>>,
                  timestamp |-> 0, videoTimestamp |-> UndefNum]>>,
     currentStep |-> 0]

\* const steps = new Map(); let currentStep = 0
EmptyAcc == [steps |-> <<>>, currentStep |-> 0]

RECURSIVE foldEvents(_, _)
foldEvents(acc, events) ==
    IF events = <<>> THEN acc
    ELSE foldEvents(processEvent(acc, Head(events)), Tail(events))

groupEventsByStep(events) == sortByStepNumber(foldEvents(EmptyAcc, events).steps)

(***************************************************************************)
(* Run and its replay fields (interface Run), as the client holds it.      *)
(* NullRun is useState<Run | null>(null).                                  *)
(***************************************************************************)
Statuses == {"running", "completed", "failed"}
Terminal(status) == status = "completed" \/ status = "failed"

NullRun ==
    [isNull |-> TRUE, status |-> Undef, events |-> <<>>,
     laminar_trace_id |-> Undef, video_path |-> Undef]

\* res.json() of GET /api/runs/{id} for the backend's run b
RunOf(b) ==
    [isNull |-> FALSE, status |-> b.status, events |-> b.events,
     laminar_trace_id |-> b.laminar_trace_id, video_path |-> b.video_path]

LaminarIds == {Null, "", "abc123"}
VideoPaths == {Null, "recording.webm"}

\* the shapes of the events the SDK sends for the run
BackendEventKinds ==
    {Event("action", Payload(UndefNum, Undef, Undef, Undef, Undef), 0),
     Event("step_start", Payload(1, Undef, Undef, Undef, Undef), UndefNum)}

(***************************************************************************)
(* State.                                                                  *)
(***************************************************************************)
VARIABLES
    \* groupEventsByStep as a running loop
    gInput,        \* the events argument
    gIdx,          \* events consumed so far
    gAcc,          \* steps map and currentStep
    gResult,       \* the returned StepGroup[]
    gPc,           \* "loop" | "done" | "raised" | "idle"
    \* RunDetailPage
    phase,         \* "constructed" | "mounted" | "unmounted"
    token,         \* localStorage has "token"
    redirected,    \* router.push("/auth") was called
    run,           \* useState<Run | null>
    loading,       \* useState(true)
    activeTab,     \* "timeline" | "security"
    prevStatusRef, \* useRef<string | null>(null)
    ws,            \* "none" | "open" | "closed"
    wsQueue,       \* stream messages on their way to ws.onmessage
    pollTimer,     \* the setInterval of the poll effect is active
    inflight,      \* fetches of fetchRun that have not settled
    scrollTops,    \* scrollTo({top: 0}) calls of the completion effect
    \* the backend's run
    backend,
    \* a call of getLaminarUrl
    lam,           \* env, arguments, returned url, "call" | "done" | "idle"
    \* the other pages
    ak,            \* ApiKeysContent (api-keys/page.tsx) and its backend
    cta,           \* FooterCTA and the waitlist table
    pp,            \* ProjectsPage and its backend
    au             \* AuthPage and local storage

gvars == <<gInput, gIdx, gAcc, gResult, gPc>>
cvars == <<phase, token, redirected, run, loading, activeTab, prevStatusRef,
           ws, wsQueue, pollTimer, inflight, scrollTops, backend>>
vars == <<gInput, gIdx, gAcc, gResult, gPc, phase, token, redirected, run,
          loading, activeTab, prevStatusRef, ws, wsQueue, pollTimer, inflight,
          scrollTops, backend, lam, ak, cta, pp, au>>
ovars == <<lam, ak, cta, pp, au>>

LamIdle == [pc |-> "idle", env |-> Undef, traceId |-> "", timestamp |-> UndefNum, url |-> ""]
PageIdle == [phase |-> "idle"]
OthersIdle == lam = LamIdle /\ ak = PageIdle /\ cta = PageIdle /\ pp = PageIdle /\ au = PageIdle

GroupIdle ==
    /\ gInput = <<>>
    /\ gIdx = 0
    /\ gAcc = EmptyAcc
    /\ gResult = <<>>
    /\ gPc = "idle"

ClientConstructed ==
    /\ phase = "constructed"
    /\ redirected = FALSE
    /\ run = NullRun
    /\ loading = TRUE
    /\ activeTab = "timeline"
    /\ prevStatusRef = Null
    /\ ws = "none"
    /\ wsQueue = <<>>
    /\ pollTimer = FALSE
    /\ inflight = <<>>
    /\ scrollTops = 0

(***************************************************************************)
(* SpecGroup: groupEventsByStep on every bounded event list.               *)
(***************************************************************************)
InitGroup ==
    /\ \E n \in 0..MaxEvents : gInput \in EventLists(n)
    /\ gIdx = 0
    /\ gAcc = EmptyAcc
    /\ gResult = <<>>
    /\ gPc = "loop"
    /\ ClientConstructed
    /\ OthersIdle
    /\ token = TRUE
    /\ backend = [status |-> "running", events |-> <<>>,
                  laminar_trace_id |-> Null, video_path |-> Null]

GroupLoopStep ==
    /\ gPc = "loop"
    /\ gIdx < Len(gInput)
    /\ ~throws(gInput[gIdx + 1])
    /\ gAcc' = processEvent(gAcc, gInput[gIdx + 1])
    /\ gIdx' = gIdx + 1
    /\ UNCHANGED <<gInput, gResult, gPc>>
    /\ UNCHANGED cvars
    /\ UNCHANGED ovars

GroupReturn ==
    /\ gPc = "loop"
    /\ gIdx = Len(gInput)
    /\ gResult' = sortByStepNumber(gAcc.steps)
    /\ gPc' = "done"
    /\ UNCHANGED <<gInput, gIdx, gAcc>>
    /\ UNCHANGED cvars
    /\ UNCHANGED ovars

\* the TypeError leaves the loop and the function
GroupRaise ==
    /\ gPc = "loop"
    /\ gIdx < Len(gInput)
    /\ throws(gInput[gIdx + 1])
    /\ gPc' = "raised"
    /\ UNCHANGED <<gInput, gIdx, gAcc, gResult>>
    /\ UNCHANGED cvars
    /\ UNCHANGED ovars

NextGroup == GroupLoopStep \/ GroupReturn \/ GroupRaise

SpecGroup == InitGroup /\ [][NextGroup]_vars

(***************************************************************************)
(* React effects of RunDetailPage.  A state update, the render it causes   *)
(* and the effects of that render are one step.                            *)
(***************************************************************************)
\* the dependency run?.status
statusDep(r) == IF r.isNull THEN Undef ELSE r.status

pollEffect_NeverCleared(oldRun, newRun, timer) ==
    timer \/ (~newRun.isNull /\ newRun.status = "running")

pollEffect_NeverStarted(oldRun, newRun, timer) == FALSE

\* poll effect, deps [run?.status, runId]: cleanup, then the effect body
pollEffect(oldRun, newRun, timer) ==
    IF statusDep(oldRun) = statusDep(newRun) THEN timer
    ELSE ~newRun.isNull /\ newRun.status = "running"

\* "Initialize prevStatusRef when run is first loaded", deps [run]
initPrevStatusEffect(newRun, prev) ==
    IF ~newRun.isNull /\ prev = Null THEN newRun.status ELSE prev

\* the completion effect scrolls: prevStatus === "running" && terminal
scrollsToTop(prevStatus, currentStatus) ==
    prevStatus = "running" /\ Terminal(currentStatus)

\* completion effect, deps [run?.status]: <<prevStatusRef, scroll calls>>
completionEffect(oldRun, newRun, prev, scrolls) ==
    IF statusDep(oldRun) = statusDep(newRun) \/ newRun.isNull
    THEN <<prev, scrolls>>
    ELSE <<newRun.status,
           IF scrollsToTop(prev, newRun.status) THEN scrolls + 1 ELSE scrolls>>

\* setRun(newRun) on the mounted component, then the render's effects
Commit(newRun) ==
    LET prev1 == initPrevStatusEffect(newRun, prevStatusRef)
        done == completionEffect(run, newRun, prev1, scrollTops)
    IN  /\ run' = newRun
        /\ pollTimer' = pollEffect(run, newRun, pollTimer)
        /\ prevStatusRef' = done[1]
        /\ scrollTops' = done[2]

\* the state of the component is not touched (also: updates after unmount)
NoCommit == UNCHANGED <<run, pollTimer, prevStatusRef, scrollTops>>

(***************************************************************************)
(* fetchRun.                                                               *)
(***************************************************************************)
Request == [stage |-> "req", kind |-> "none", body |-> NullRun]

\* the part of fetchRun before the await: the request leaves if a token is stored
fetchRunIssued(tok, fl) == IF tok THEN Append(fl, Request) ELSE fl

\* what fetchRun's setRun(await res.json()) stores for the body of the response
fetchedRun(prev, body) == body

RemoveAt(seq, i) == SubSeq(seq, 1, i - 1) \o SubSeq(seq, i + 1, Len(seq))

settleOutcome_AnyFailureRedirects(kind) ==
    IF kind = "ok" THEN "setRun" ELSE "redirect"

settleOutcome_AlwaysSetRun(kind) == "setRun"

\* the branch fetchRun takes on its response: res.ok, res.status === 401,
\* any other status (nothing) or a rejected fetch (catch: console.error)
settleOutcome(kind) ==
    IF kind = "ok" THEN "setRun"
    ELSE IF kind = "401" THEN "redirect"
    ELSE "log"

\* the rest of fetchRun, when the response (or the rejection) arrives
FetchSettles(i) ==
    /\ i \in 1..Len(inflight)
    /\ inflight[i].stage = "resp"
    /\ inflight' = RemoveAt(inflight, i)
    /\ redirected' = (redirected \/ settleOutcome(inflight[i].kind) = "redirect")
    /\ IF phase = "mounted"
       THEN /\ loading' = FALSE
            /\ IF settleOutcome(inflight[i].kind) = "setRun"
               THEN Commit(fetchedRun(run, inflight[i].body))
               ELSE NoCommit
       ELSE /\ NoCommit
            /\ UNCHANGED loading
    /\ UNCHANGED <<phase, token, activeTab, ws, wsQueue, backend>>
    /\ UNCHANGED gvars
    /\ UNCHANGED ovars

(***************************************************************************)
(* Mount effect: token check, first fetchRun, WebSocket.                   *)
(***************************************************************************)
Mount ==
    /\ phase = "constructed"
    /\ phase' = "mounted"
    /\ IF ~token
       THEN /\ redirected' = TRUE
            /\ UNCHANGED <<inflight, ws>>
       ELSE /\ inflight' = fetchRunIssued(token, inflight)
            /\ ws' = "open"
            /\ UNCHANGED redirected
    /\ NoCommit
    /\ UNCHANGED <<token, loading, activeTab, wsQueue, backend>>
    /\ UNCHANGED gvars
    /\ UNCHANGED ovars

\* setInterval(() => fetchRun(), 2000) fires
PollTick ==
    /\ pollTimer
    /\ Len(inflight) < MaxInflight
    /\ inflight' = fetchRunIssued(token, inflight)
    /\ inflight' # inflight
    /\ NoCommit
    /\ UNCHANGED <<phase, token, redirected, loading, activeTab, ws, wsQueue, backend>>
    /\ UNCHANGED gvars
    /\ UNCHANGED ovars

(***************************************************************************)
(* ws.onmessage, ws.onerror / ws.onclose, unmount.                         *)
(***************************************************************************)
appendEvent_NoNullCheck(prev, newEvent) ==
    [prev EXCEPT !.events = Append(@, newEvent)]

\* setRun((prev) => prev ? {...prev, events: [...prev.events, newEvent]} : prev)
appendEvent(prev, newEvent) ==
    IF prev.isNull THEN prev ELSE [prev EXCEPT !.events = Append(@, newEvent)]

\* readyState after the cleanup of the mount effect ran (ws.close())
wsAfterCleanup(w) == IF w = "none" THEN "none" ELSE "closed"

\* JSON.parse(event.data) returns (a throw is caught and logged)
parses(data) == data.json # "unparsable"

WsMessage ==
    /\ ws = "open"
    /\ wsQueue # <<>>
    /\ wsQueue' = Tail(wsQueue)
    /\ IF phase = "mounted" /\ parses(Head(wsQueue))
       THEN Commit(appendEvent(run, Head(wsQueue)))
       ELSE NoCommit
    /\ UNCHANGED <<phase, token, redirected, loading, activeTab, ws, inflight, backend>>
    /\ UNCHANGED gvars
    /\ UNCHANGED ovars

\* the socket fails or the server closes it: both handlers only log
WsClosed ==
    /\ ws = "open"
    /\ ws' = "closed"
    /\ wsQueue' = <<>>
    /\ NoCommit
    /\ UNCHANGED <<phase, token, redirected, loading, activeTab, inflight, backend>>
    /\ UNCHANGED gvars
    /\ UNCHANGED ovars

\* cleanups of the mount effect and of the poll effect
Unmount ==
    /\ phase = "mounted"
    /\ phase' = "unmounted"
    /\ ws' = wsAfterCleanup(ws)
    /\ wsQueue' = <<>>
    /\ pollTimer' = FALSE
    /\ UNCHANGED <<run, prevStatusRef, scrollTops>>
    /\ UNCHANGED <<token, redirected, loading, activeTab, inflight, backend>>
    /\ UNCHANGED gvars
    /\ UNCHANGED ovars

SetActiveTab ==
    /\ phase = "mounted"
    /\ ~loading /\ ~run.isNull
    /\ activeTab' = IF activeTab = "timeline" THEN "security" ELSE "timeline"
    /\ NoCommit
    /\ UNCHANGED <<phase, token, redirected, loading, ws, wsQueue, inflight, backend>>
    /\ UNCHANGED gvars
    /\ UNCHANGED ovars

\* handleLogout of the dashboard layout
Logout ==
    /\ phase = "mounted"
    /\ token
    /\ token' = FALSE
    /\ redirected' = TRUE
    /\ NoCommit
    /\ UNCHANGED <<phase, loading, activeTab, ws, wsQueue, inflight, backend>>
    /\ UNCHANGED gvars
    /\ UNCHANGED ovars

(***************************************************************************)
(* The backend: ingestion, completion, GET /api/runs/{id}, relay to the    *)
(* run's WebSocket.                                                        *)
(***************************************************************************)
BackendIngest ==
    /\ backend.status = "running"
    /\ Len(backend.events) < MaxBackendEvents
    /\ \E k \in BackendEventKinds :
         LET n == Len(backend.events) + 1
             e == [k EXCEPT !.id = n, !.timestamp = n]
         IN  /\ backend' = [backend EXCEPT !.events = Append(@, e)]
             /\ wsQueue' = IF ws = "open" THEN Append(wsQueue, e) ELSE wsQueue
    /\ NoCommit
    /\ UNCHANGED <<phase, token, redirected, loading, activeTab, ws, inflight>>
    /\ UNCHANGED gvars
    /\ UNCHANGED ovars

BackendFinish ==
    /\ backend.status = "running"
    /\ \E s \in {"completed", "failed"} : backend' = [backend EXCEPT !.status = s]
    /\ NoCommit
    /\ UNCHANGED <<phase, token, redirected, loading, activeTab, ws, wsQueue, inflight>>
    /\ UNCHANGED gvars
    /\ UNCHANGED ovars

\* a frame that is not a JSON-encoded Event: text that is not JSON, or JSON
\* of another shape
Unparsable == [Event(Undef, NoPayload, UndefNum) EXCEPT !.json = "unparsable"]
StreamFrames ==
    {Unparsable,
     [Event(Undef, NoPayload, UndefNum) EXCEPT !.json = "null"],
     [Event("action", NoPayload, UndefNum) EXCEPT !.json = "no_payload"]}

WsMalformedFrame ==
    /\ ws = "open"
    /\ Len(wsQueue) < MaxQueue
    /\ run.isNull \/ Len(run.events) < MaxHeld
    /\ \E f \in StreamFrames : wsQueue' = Append(wsQueue, f)
    /\ NoCommit
    /\ UNCHANGED <<phase, token, redirected, loading, activeTab, ws, inflight, backend>>
    /\ UNCHANGED gvars
    /\ UNCHANGED ovars

ResponseKinds == {"ok", "401", "500", "neterr"}

\* a pending request is answered with a response of kind k
BackendServesKind(k) ==
    /\ \E i \in 1..Len(inflight) :
         /\ inflight[i].stage = "req"
         /\ inflight' = [inflight EXCEPT ![i] =
                  [stage |-> "resp", kind |-> k,
                   body |-> IF k = "ok" THEN RunOf(backend) ELSE NullRun]]
    /\ NoCommit
    /\ UNCHANGED <<phase, token, redirected, loading, activeTab, ws, wsQueue, backend>>
    /\ UNCHANGED gvars
    /\ UNCHANGED ovars

BackendServes == \E k \in ResponseKinds : BackendServesKind(k)

(***************************************************************************)
(* Spec: one run-detail view against one backend run.                      *)
(***************************************************************************)
Init ==
    /\ GroupIdle
    /\ ClientConstructed
    /\ OthersIdle
    /\ token \in BOOLEAN
    /\ \E l \in LaminarIds, v \in VideoPaths :
         backend = [status |-> "running", events |-> <<>>,
                    laminar_trace_id |-> l, video_path |-> v]

FetchSettlesAny == \E i \in 1..Len(inflight) : FetchSettles(i)

Next ==
    \/ Mount
    \/ FetchSettlesAny
    \/ PollTick
    \/ WsMessage
    \/ WsClosed
    \/ Unmount
    \/ SetActiveTab
    \/ Logout
    \/ BackendIngest
    \/ BackendFinish
    \/ BackendServes

Spec == Init /\ [][Next]_vars

(***************************************************************************)
(* SpecStream: the same view on a stream that also carries frames that are *)
(* not Events.                                                             *)
(***************************************************************************)
InitStream ==
    /\ GroupIdle
    /\ ClientConstructed
    /\ OthersIdle
    /\ token = TRUE
    /\ backend = [status |-> "running", events |-> <<>>,
                  laminar_trace_id |-> Null, video_path |-> Null]

NextStream ==
    \/ Mount
    \/ FetchSettlesAny
    \/ PollTick
    \/ WsMessage
    \/ WsClosed
    \/ Unmount
    \/ BackendIngest
    \/ BackendFinish
    \/ BackendServes
    \/ WsMalformedFrame

SpecStream == InitStream /\ [][NextStream]_vars

(***************************************************************************)
(* SpecLive: the view stays mounted with a valid token; every response     *)
(* that arrived is handled, the interval keeps firing while it is set, and *)
(* requests are answered OK again and again.                               *)
(***************************************************************************)
ServeOk == BackendServesKind("ok")
ServeFailure == \E k \in {"500", "neterr"} : BackendServesKind(k)

NextLive ==
    \/ Mount
    \/ FetchSettlesAny
    \/ PollTick
    \/ WsMessage
    \/ WsClosed
    \/ BackendIngest
    \/ BackendFinish
    \/ ServeOk
    \/ ServeFailure

Fairness ==
    /\ WF_vars(PollTick)
    /\ \A i \in 1..MaxInflight : WF_vars(FetchSettles(i))
    /\ SF_vars(ServeOk)

SpecLive == InitStream /\ [][NextLive]_vars /\ Fairness

(***************************************************************************)
(* getLaminarUrl.  A video offset is a number of hundredths of a second.   *)
(***************************************************************************)
DigitChar(d) ==
    CASE d = 0 -> "0" [] d = 1 -> "1" [] d = 2 -> "2" [] d = 3 -> "3"
      [] d = 4 -> "4" [] d = 5 -> "5" [] d = 6 -> "6" [] d = 7 -> "7"
      [] d = 8 -> "8" [] d = 9 -> "9"

\* the decimal digits of a natural number
RECURSIVE Decimal(_)
Decimal(n) == IF n < 10 THEN DigitChar(n) ELSE Decimal(n \div 10) \o DigitChar(n % 10)

toFixed1_Truncate(centi) == {centi \div 10}

\* Number.prototype.toFixed(1): the numbers of tenths n for which n / 10 is
\* as close to the value as possible, the larger one on a tie.  A value
\* ending in 5 hundredths is a tie only when the double holds it exactly
\* (.25 and .75); for the others the double lies a little above or below,
\* so either neighbour may come out.
toFixed1(centi) ==
    IF centi % 10 < 5 THEN {centi \div 10}
    ELSE IF centi % 10 > 5 \/ centi % 25 = 0 THEN {centi \div 10 + 1}
    ELSE {centi \div 10, centi \div 10 + 1}

\* the string toFixed(1) returns for n tenths
tenthsToString(n) == Decimal(n \div 10) \o "." \o DigitChar(n % 10)

\* process.env.NEXT_PUBLIC_LAMINAR_URL || "https://laminar.sh"
baseUrl(env) == OrStr(env, "https://laminar.sh")

\* getLaminarUrl(traceId, timestamp), tenths being what toFixed(1) chose
getLaminarUrl(env, traceId, timestamp, tenths) ==
    LET url == baseUrl(env) \o "/shared/traces/" \o traceId
    IN  IF timestamp # UndefNum
        THEN url \o "?t=" \o tenthsToString(tenths)
        ELSE url

LaminarEnvs == {Undef, "", "https://lmnr.example.com"}
TraceIds == {"abc123", "7f"}
Timestamps == {UndefNum} \cup (0..MaxCenti) \cup {1234}

InitUrl ==
    /\ GroupIdle
    /\ ClientConstructed
    /\ token = TRUE
    /\ backend = [status |-> "running", events |-> <<>>,
                  laminar_trace_id |-> Null, video_path |-> Null]
    /\ \E e \in LaminarEnvs, id \in TraceIds, t \in Timestamps :
         lam = [pc |-> "call", env |-> e, traceId |-> id, timestamp |-> t, url |-> ""]
    /\ ak = PageIdle /\ cta = PageIdle /\ pp = PageIdle /\ au = PageIdle

GetLaminarUrl ==
    /\ lam.pc = "call"
    /\ \E n \in (IF lam.timestamp = UndefNum THEN {0} ELSE toFixed1(lam.timestamp)) :
         lam' = [lam EXCEPT !.pc = "done",
                            !.url = getLaminarUrl(lam.env, lam.traceId, lam.timestamp, n)]
    /\ UNCHANGED <<gvars, cvars, ak, cta, pp, au>>

NextUrl == GetLaminarUrl

SpecUrl == InitUrl /\ [][NextUrl]_vars

(***************************************************************************)
(* ApiKeysContent (api-keys/page.tsx).  The plaintext of the key the       *)
(* backend created with id n is the number n; NullKey is null.             *)
(***************************************************************************)
NullKey == 0

AkConstructed(redirectPath, hasProject) ==
    [phase |-> "constructed", loading |-> TRUE, showCreate |-> FALSE,
     selectedProject |-> "", newKey |-> NullKey, keys |-> {},
     redirectPath |-> redirectPath, pushed |-> FALSE, inflight |-> <<>>,
     \* the backend: listed key ids, next id, whether the user owns a project
     serverKeys |-> {}, nextKey |-> 1, hasProject |-> hasProject,
     \* history: plaintexts whose banner the user dismissed
     dismissed |-> {}]

AkRequest(op, key) ==
    [op |-> op, stage |-> "req", kind |-> "none", key |-> key, keys |-> {},
     hasProject |-> FALSE]

\* fetchData before its await: both GETs leave if a token is stored
fetchDataIssued(tok, fl) == IF tok THEN Append(fl, AkRequest("list", NullKey)) ELSE fl

fetchDataSettled_RestoresKey(st, resp) ==
    IF resp.kind = "ok"
    THEN [st EXCEPT !.loading = FALSE,
                    !.keys = resp.keys,
                    !.selectedProject =
                        IF resp.hasProject /\ st.selectedProject = "" THEN "p1" ELSE @,
                    !.newKey =
                        IF resp.keys # {} /\ st.newKey = NullKey
                        THEN CHOOSE k \in resp.keys : \A j \in resp.keys : j <= k
                        ELSE @]
    ELSE [st EXCEPT !.loading = FALSE]

\* fetchData after the await: setKeys, setProjects / setSelectedProject,
\* and setLoading(false) in the finally block
fetchDataSettled(st, resp) ==
    IF resp.kind = "ok"
    THEN [st EXCEPT !.loading = FALSE,
                    !.keys = resp.keys,
                    !.selectedProject =
                        IF resp.hasProject /\ st.selectedProject = "" THEN "p1" ELSE @]
    ELSE [st EXCEPT !.loading = FALSE]

\* createKey after the await (the fetchData() it calls is in the action)
createKeySettled(st, resp) ==
    IF resp.kind = "ok"
    THEN [st EXCEPT !.newKey = resp.key, !.showCreate = FALSE]
    ELSE st

\* handleDone: setNewKey(null); router.push(redirectPath) leaves the page
handleDone(st) ==
    [st EXCEPT !.newKey = NullKey,
               !.dismissed = @ \cup {st.newKey},
               !.pushed = (@ \/ st.redirectPath # Null),
               !.phase = IF st.redirectPath # Null THEN "unmounted" ELSE @]

\* the "API Key Generated Successfully" banner is on screen
AkBanner == ak.phase = "mounted" /\ ~ak.loading /\ ak.newKey # NullKey

AkRest == <<gvars, cvars, lam, cta, pp, au>>

InitKeys ==
    /\ GroupIdle
    /\ ClientConstructed
    /\ token \in BOOLEAN
    /\ backend = [status |-> "running", events |-> <<>>,
                  laminar_trace_id |-> Null, video_path |-> Null]
    /\ lam = LamIdle /\ cta = PageIdle /\ pp = PageIdle /\ au = PageIdle
    /\ \E r \in {Null, "/projects/p1"}, h \in BOOLEAN : ak = AkConstructed(r, h)

\* useEffect(() => { fetchData() }, [])
AkMount ==
    /\ ak.phase = "constructed"
    /\ ak' = [ak EXCEPT !.phase = "mounted",
                        !.inflight = fetchDataIssued(token, @)]
    /\ UNCHANGED AkRest

AkOpenCreate ==
    /\ ak.phase = "mounted" /\ ~ak.loading
    /\ ~ak.showCreate
    /\ ak' = [ak EXCEPT !.showCreate = TRUE]
    /\ UNCHANGED AkRest

AkCancelCreate ==
    /\ ak.phase = "mounted" /\ ~ak.loading
    /\ ak.showCreate
    /\ ak' = [ak EXCEPT !.showCreate = FALSE]
    /\ UNCHANGED AkRest

\* createKey before its await
AkCreateKey ==
    /\ ak.phase = "mounted" /\ ~ak.loading
    /\ ak.showCreate
    /\ ak.selectedProject # ""
    /\ token
    /\ Len(ak.inflight) < MaxKeyRequests
    /\ ak' = [ak EXCEPT !.inflight = Append(@, AkRequest("create", NullKey))]
    /\ UNCHANGED AkRest

\* deleteKey before its await, the confirm() accepted
AkDeleteKey ==
    /\ ak.phase = "mounted" /\ ~ak.loading
    /\ token
    /\ Len(ak.inflight) < MaxKeyRequests
    /\ \E k \in ak.keys :
         ak' = [ak EXCEPT !.inflight = Append(@, AkRequest("delete", k))]
    /\ UNCHANGED AkRest

AkHandleDone ==
    /\ AkBanner
    /\ ak' = handleDone(ak)
    /\ UNCHANGED AkRest

\* the backend answers a request: GET /api/api-keys and /api/projects,
\* POST /api/api-keys, DELETE /api/api-keys/{id}; "fail" is a non-OK status
\* or a rejected fetch, which the three functions only log
AkServe ==
    /\ \E i \in 1..Len(ak.inflight), kind \in {"ok", "fail"} :
         LET q == ak.inflight[i]
             made == kind = "ok" /\ q.op = "create"
             gone == kind = "ok" /\ q.op = "delete"
             sk == IF made THEN ak.serverKeys \cup {ak.nextKey}
                   ELSE IF gone THEN ak.serverKeys \ {q.key}
                   ELSE ak.serverKeys
         IN  /\ q.stage = "req"
             /\ made => ak.nextKey <= MaxKeys
             /\ ak' = [ak EXCEPT
                   !.serverKeys = sk,
                   !.nextKey = IF made THEN @ + 1 ELSE @,
                   !.inflight[i] =
                       [q EXCEPT !.stage = "resp", !.kind = kind,
                                 !.key = IF made THEN ak.nextKey ELSE q.key,
                                 !.keys = IF kind = "ok" /\ q.op = "list"
                                          THEN ak.serverKeys ELSE {},
                                 !.hasProject = ak.hasProject]]
    /\ UNCHANGED AkRest

\* the rest of fetchData, createKey or deleteKey when the answer arrives
AkSettles ==
    /\ \E i \in 1..Len(ak.inflight) :
         LET resp == ak.inflight[i]
             rest == RemoveAt(ak.inflight, i)
             st == IF ak.phase # "mounted" THEN ak
                   ELSE IF resp.op = "list" THEN fetchDataSettled(ak, resp)
                   ELSE IF resp.op = "create" THEN createKeySettled(ak, resp)
                   ELSE ak
         IN  /\ resp.stage = "resp"
             /\ ak' = [st EXCEPT !.inflight =
                          IF resp.op # "list" /\ resp.kind = "ok"
                          THEN fetchDataIssued(token, rest) ELSE rest]
    /\ UNCHANGED AkRest

NextKeys ==
    \/ AkMount
    \/ AkOpenCreate
    \/ AkCancelCreate
    \/ AkCreateKey
    \/ AkDeleteKey
    \/ AkHandleDone
    \/ AkServe
    \/ AkSettles

SpecKeys == InitKeys /\ [][NextKeys]_vars

(***************************************************************************)
(* FooterCTA (landing page demo form) and the waitlist table.  Two         *)
(* visitors, L and R, make the same inputs against two waitlist tables.    *)
(***************************************************************************)
Emails == {"a@x.co", "b@x.co"}

\* useState("") / false / false / null, no insert pending
FooterConstructed(waitlist) ==
    [email |-> "", loading |-> FALSE, success |-> FALSE, error |-> Null,
     pending |-> Null, waitlist |-> waitlist]

\* handleSubmit up to the await
handleSubmitStart(c) ==
    IF c.email = ""
    THEN [c EXCEPT !.error = "Please enter your email.", !.loading = FALSE]
    ELSE [c EXCEPT !.error = Null, !.loading = TRUE, !.pending = c.email]

\* the error of supabase.from("waitlist").insert([{ email }]): none, the
\* unique violation 23505, or another failure
insertError(c, fails) ==
    IF fails THEN "other"
    ELSE IF c.pending \in c.waitlist THEN "23505"
    ELSE Null

\* handleSubmit after the await, and the row the insert added
handleSubmitSettled(c, err) ==
    LET done == [c EXCEPT !.loading = FALSE, !.pending = Null]
    IN  IF err = Null
        THEN [done EXCEPT !.success = TRUE, !.email = "",
                          !.waitlist = @ \cup {c.pending}]
        ELSE IF err = "23505"
        THEN [done EXCEPT !.success = TRUE]
        ELSE [done EXCEPT !.error = "Something went wrong. Please try again."]

\* what the visitor sees: the form with its input, error line and button,
\* or the "You're on the list!" view
FooterView(c) ==
    IF c.success THEN [view |-> "success", email |-> "", error |-> Null, loading |-> FALSE]
    ELSE [view |-> "form", email |-> c.email, error |-> c.error, loading |-> c.loading]

CtaRest == <<gvars, cvars, lam, ak, pp, au>>

InitCta ==
    /\ GroupIdle
    /\ ClientConstructed
    /\ token = TRUE
    /\ backend = [status |-> "running", events |-> <<>>,
                  laminar_trace_id |-> Null, video_path |-> Null]
    /\ lam = LamIdle /\ ak = PageIdle /\ pp = PageIdle /\ au = PageIdle
    /\ \E wl \in SUBSET Emails, wr \in SUBSET Emails :
         cta = [phase |-> "mounted", submits |-> 0,
                L |-> FooterConstructed(wl), R |-> FooterConstructed(wr)]

\* onChange of the email input
FooterType ==
    /\ ~cta.L.success /\ ~cta.R.success
    /\ \E e \in Emails \cup {""} :
         /\ e # cta.L.email \/ e # cta.R.email
         /\ cta' = [cta EXCEPT !.L.email = e, !.R.email = e]
    /\ UNCHANGED CtaRest

\* the form is submitted (the button is disabled while loading)
FooterSubmit ==
    /\ ~cta.L.success /\ ~cta.R.success
    /\ ~cta.L.loading /\ ~cta.R.loading
    /\ cta.submits < MaxSubmits
    /\ cta' = [cta EXCEPT !.submits = @ + 1,
                          !.L = handleSubmitStart(@),
                          !.R = handleSubmitStart(@)]
    /\ UNCHANGED CtaRest

\* the insert answers
FooterInsertSettles ==
    /\ cta.L.pending # Null /\ cta.R.pending # Null
    /\ \E fails \in BOOLEAN :
         cta' = [cta EXCEPT
                   !.L = handleSubmitSettled(@, insertError(cta.L, fails)),
                   !.R = handleSubmitSettled(@, insertError(cta.R, fails))]
    /\ UNCHANGED CtaRest

\* "Add another email": setSuccess(false)
FooterAddAnother ==
    /\ cta.L.success /\ cta.R.success
    /\ cta' = [cta EXCEPT !.L.success = FALSE, !.R.success = FALSE]
    /\ UNCHANGED CtaRest

NextCta ==
    \/ FooterType
    \/ FooterSubmit
    \/ FooterInsertSettles
    \/ FooterAddAnother

SpecCta == InitCta /\ [][NextCta]_vars

(***************************************************************************)
(* ProjectsPage (projects page): the list and the delete dialog.  A        *)
(* project is [id, name]; NullProject is projectToDelete === null.         *)
(***************************************************************************)
ProjectNames == {"alpha", "beta"}
ConfirmationTexts == ProjectNames \cup {"", "Alpha"}
NullProject == [id |-> 0, name |-> ""]

PpConstructed(server) ==
    [phase |-> "constructed", loading |-> TRUE, projects |-> {},
     showDeleteModal |-> FALSE, projectToDelete |-> NullProject,
     deleteConfirmation |-> "", isDeleting |-> FALSE, inflight |-> <<>>,
     \* history: the project whose dialog the confirmation was typed in
     typedFor |-> 0,
     \* the backend: the projects the user owns
     server |-> server]

PpRequest(op, id) ==
    [op |-> op, stage |-> "req", kind |-> "none", id |-> id, projects |-> {}]

\* fetchProjects before its await
fetchProjectsIssued(tok, fl) == IF tok THEN Append(fl, PpRequest("list", 0)) ELSE fl

\* fetchProjects after the await: setProjects on res.ok, setLoading(false)
\* in the finally block
fetchProjectsSettled(st, resp) ==
    IF resp.kind = "ok"
    THEN [st EXCEPT !.projects = resp.projects, !.loading = FALSE]
    ELSE [st EXCEPT !.loading = FALSE]

openDeleteModal_KeepsConfirmation(st, p) ==
    [st EXCEPT !.projectToDelete = p, !.showDeleteModal = TRUE]

\* onClick of a project's "Delete Project" menu item
openDeleteModal(st, p) ==
    [st EXCEPT !.projectToDelete = p,
               !.deleteConfirmation = "",
               !.showDeleteModal = TRUE]

\* the negation of handleDeleteProject's first early return
deleteConfirmed(st) ==
    /\ st.projectToDelete # NullProject
    /\ st.deleteConfirmation = st.projectToDelete.name

\* the negation of the delete button's disabled attribute
deleteButtonEnabled(st) ==
    /\ st.projectToDelete # NullProject
    /\ st.deleteConfirmation = st.projectToDelete.name
    /\ ~st.isDeleting

\* handleDeleteProject before its await
handleDeleteProjectStart(st, tok) ==
    IF ~deleteConfirmed(st) \/ ~tok THEN st
    ELSE [st EXCEPT !.isDeleting = TRUE,
                    !.inflight = Append(@, PpRequest("delete", st.projectToDelete.id))]

\* handleDeleteProject after the await (the fetchProjects() it calls is in
\* the action); setIsDeleting(false) is in the finally block
handleDeleteProjectSettled(st, resp) ==
    IF resp.kind = "ok"
    THEN [st EXCEPT !.showDeleteModal = FALSE,
                    !.projectToDelete = NullProject,
                    !.deleteConfirmation = "",
                    !.isDeleting = FALSE]
    ELSE [st EXCEPT !.isDeleting = FALSE]

PpRest == <<gvars, cvars, lam, ak, cta, au>>

InitProjects ==
    /\ GroupIdle
    /\ ClientConstructed
    /\ token \in BOOLEAN
    /\ backend = [status |-> "running", events |-> <<>>,
                  laminar_trace_id |-> Null, video_path |-> Null]
    /\ lam = LamIdle /\ ak = PageIdle /\ cta = PageIdle /\ au = PageIdle
    /\ \E nm \in [1..MaxProjects -> ProjectNames] :
         pp = PpConstructed({[id |-> i, name |-> nm[i]] : i \in 1..MaxProjects})

\* useEffect(() => { fetchProjects() }, [])
PpMount ==
    /\ pp.phase = "constructed"
    /\ pp' = [pp EXCEPT !.phase = "mounted",
                        !.inflight = fetchProjectsIssued(token, @)]
    /\ UNCHANGED PpRest

\* a listed project's menu, "Delete Project" (the dialogs cover the list)
PpOpenDeleteModal ==
    /\ pp.phase = "mounted" /\ ~pp.loading
    /\ ~pp.showDeleteModal
    /\ \E p \in pp.projects : pp' = openDeleteModal(pp, p)
    /\ UNCHANGED PpRest

\* onChange of the confirmation input
PpTypeConfirmation ==
    /\ pp.phase = "mounted" /\ pp.showDeleteModal
    /\ \E text \in ConfirmationTexts :
         /\ text # pp.deleteConfirmation
         /\ pp' = [pp EXCEPT !.deleteConfirmation = text,
                              !.typedFor = pp.projectToDelete.id]
    /\ UNCHANGED PpRest

\* the dialog's X and Cancel buttons: setShowDeleteModal(false)
PpCloseDeleteModal ==
    /\ pp.phase = "mounted" /\ pp.showDeleteModal
    /\ pp' = [pp EXCEPT !.showDeleteModal = FALSE]
    /\ UNCHANGED PpRest

\* onClick of the dialog's delete button
PpDeleteProject ==
    /\ pp.phase = "mounted" /\ pp.showDeleteModal
    /\ deleteButtonEnabled(pp)
    /\ pp' = handleDeleteProjectStart(pp, token)
    /\ UNCHANGED PpRest

\* the backend answers GET /api/projects or DELETE /api/projects/{id};
\* "fail" is a non-OK status or a rejected fetch.  A project that is gone
\* cannot be deleted again.
PpServe ==
    /\ \E i \in 1..Len(pp.inflight), kind \in {"ok", "fail"} :
         LET q == pp.inflight[i]
             gone == kind = "ok" /\ q.op = "delete"
         IN  /\ q.stage = "req"
             /\ gone => \E p \in pp.server : p.id = q.id
             /\ pp' = [pp EXCEPT
                   !.server = IF gone THEN {p \in @ : p.id # q.id} ELSE @,
                   !.inflight[i] =
                       [q EXCEPT !.stage = "resp", !.kind = kind,
                                 !.projects = IF kind = "ok" /\ q.op = "list"
                                              THEN pp.server ELSE {}]]
    /\ UNCHANGED PpRest

\* the rest of fetchProjects or handleDeleteProject when the answer arrives
PpSettles ==
    /\ \E i \in 1..Len(pp.inflight) :
         LET resp == pp.inflight[i]
             rest == RemoveAt(pp.inflight, i)
             st == IF resp.op = "list" THEN fetchProjectsSettled(pp, resp)
                   ELSE handleDeleteProjectSettled(pp, resp)
         IN  /\ resp.stage = "resp"
             /\ pp' = [st EXCEPT !.inflight =
                          IF resp.op = "delete" /\ resp.kind = "ok"
                          THEN fetchProjectsIssued(token, rest) ELSE rest]
    /\ UNCHANGED PpRest

NextProjects ==
    \/ PpMount
    \/ PpOpenDeleteModal
    \/ PpTypeConfirmation
    \/ PpCloseDeleteModal
    \/ PpDeleteProject
    \/ PpServe
    \/ PpSettles

SpecProjects == InitProjects /\ [][NextProjects]_vars

(***************************************************************************)
(* AuthPage (auth/page.tsx): the stored-token check on mount and the       *)
(* sign-in / sign-up form.  localStorage "token" is the variable token.    *)
(***************************************************************************)
AuConstructed ==
    [phase |-> "constructed", checkingAuth |-> TRUE, isSignup |-> FALSE,
     email |-> "", password |-> "", name |-> "",
     error |-> "", loading |-> FALSE, inflight |-> <<>>,
     \* router.push("/") was called; history: localStorage.setItem calls
     pushed |-> FALSE, tokenWrites |-> 0]

\* what a POST to /api/auth/signin or /api/auth/signup can come back as:
\* 2xx with a JSON body, 2xx whose body is not JSON, non-OK with detail,
\* non-OK without detail, non-OK whose body is not JSON, a rejected fetch
AuthOutcomes ==
    {"ok", "okBadBody", "notOkDetail", "notOkNoDetail", "notOkBadBody", "rejected"}

AuRequest(op, body) == [op |-> op, stage |-> "req", kind |-> "none", body |-> body]

\* what the user types into the three inputs
AuthFields == {"", "x"}

\* the three inputs are required: the browser submits the form only when
\* the rendered ones are filled
formValid(st) ==
    /\ st.email # "" /\ st.password # ""
    /\ st.isSignup => st.name # ""

\* const body = { email, password }; body.name = name on sign-up
authBody(st) ==
    [email |-> st.email, password |-> st.password,
     name |-> IF st.isSignup THEN st.name ELSE Undef]

\* the value caught by handleSubmit's catch block has this message, "" when
\* nothing is thrown
thrownMessage(kind) ==
    CASE kind = "ok" -> ""
      [] kind = "okBadBody" -> "Unexpected token"
      [] kind = "notOkDetail" -> "Invalid credentials"
      [] kind = "notOkNoDetail" -> "Authentication failed"
      [] kind = "notOkBadBody" -> "Unexpected token"
      [] kind = "rejected" -> "Failed to fetch"

\* handleSubmit before its await: setError(""), setLoading(true), the POST
authHandleSubmitStart(st) ==
    [st EXCEPT !.error = "",
               !.loading = TRUE,
               !.inflight = Append(@, AuRequest(IF st.isSignup THEN "signup" ELSE "signin",
                                                authBody(st)))]

authHandleSubmitSettled_StoresAnyBody(st, tok, kind) ==
    IF kind \in {"ok", "notOkDetail", "notOkNoDetail"}
    THEN [st |-> [st EXCEPT !.loading = FALSE, !.pushed = (@ \/ kind = "ok"),
                            !.error = IF kind = "ok" THEN @ ELSE thrownMessage(kind),
                            !.tokenWrites = @ + 1,
                            !.phase = IF kind = "ok" THEN "left" ELSE @],
          token |-> TRUE]
    ELSE [st |-> [st EXCEPT !.loading = FALSE, !.error = thrownMessage(kind)],
          token |-> tok]

\* handleSubmit after the await: the page state and the stored token
authHandleSubmitSettled(st, tok, kind) ==
    IF kind = "ok"
    THEN [st |-> [st EXCEPT !.loading = FALSE, !.pushed = TRUE,
                            !.tokenWrites = @ + 1, !.phase = "left"],
          token |-> TRUE]
    ELSE [st |-> [st EXCEPT !.loading = FALSE, !.error = thrownMessage(kind)],
          token |-> tok]

AuRest == <<gvars, phase, redirected, run, loading, activeTab, prevStatusRef,
            ws, wsQueue, pollTimer, inflight, scrollTops, backend,
            lam, ak, cta, pp>>

InitAuth ==
    /\ GroupIdle
    /\ ClientConstructed
    /\ token \in BOOLEAN
    /\ backend = [status |-> "running", events |-> <<>>,
                  laminar_trace_id |-> Null, video_path |-> Null]
    /\ lam = LamIdle /\ ak = PageIdle /\ cta = PageIdle /\ pp = PageIdle
    /\ au = AuConstructed

\* the mount effect: GET /api/auth/me when a token is stored
AuMount ==
    /\ au.phase = "constructed"
    /\ au' = IF token
             THEN [au EXCEPT !.phase = "mounted", !.inflight = Append(@, AuRequest("me", Undef))]
             ELSE [au EXCEPT !.phase = "mounted", !.checkingAuth = FALSE]
    /\ UNCHANGED token
    /\ UNCHANGED AuRest

\* the backend answers, or the fetch is rejected
AuServe ==
    /\ \E i \in 1..Len(au.inflight), kind \in AuthOutcomes :
         /\ au.inflight[i].stage = "req"
         /\ au.inflight[i].op = "me" => kind \in {"ok", "notOkDetail", "rejected"}
         /\ au' = [au EXCEPT !.inflight[i] = [@ EXCEPT !.stage = "resp", !.kind = kind]]
    /\ UNCHANGED token
    /\ UNCHANGED AuRest

\* the .then / .catch of the mount effect
AuCheckSettles ==
    /\ au.phase = "mounted"
    /\ \E i \in 1..Len(au.inflight) :
         LET resp == au.inflight[i]
             rest == RemoveAt(au.inflight, i)
         IN  /\ resp.op = "me" /\ resp.stage = "resp"
             /\ au' = IF resp.kind = "ok"
                      THEN [au EXCEPT !.inflight = rest, !.pushed = TRUE, !.phase = "left"]
                      ELSE [au EXCEPT !.inflight = rest, !.checkingAuth = FALSE]
             /\ token' = IF resp.kind = "notOkDetail" THEN FALSE ELSE token
    /\ UNCHANGED AuRest

\* the "Sign In" / "Sign Up" switch under the form
AuToggleSignup ==
    /\ au.phase = "mounted" /\ ~au.checkingAuth
    /\ au' = [au EXCEPT !.isSignup = ~@, !.error = ""]
    /\ UNCHANGED token
    /\ UNCHANGED AuRest

\* onChange of the name (sign-up only), email and password inputs
AuType ==
    /\ au.phase = "mounted" /\ ~au.checkingAuth
    /\ \E field \in {"name", "email", "password"}, text \in AuthFields :
         /\ field = "name" => au.isSignup
         /\ au[field] # text
         /\ au' = [au EXCEPT ![field] = text]
    /\ UNCHANGED token
    /\ UNCHANGED AuRest

\* the form is submitted (the submit button is disabled while loading)
AuSubmit ==
    /\ au.phase = "mounted" /\ ~au.checkingAuth
    /\ ~au.loading
    /\ formValid(au)
    /\ au' = authHandleSubmitStart(au)
    /\ UNCHANGED token
    /\ UNCHANGED AuRest

\* the rest of handleSubmit when the answer arrives
AuSubmitSettles ==
    /\ au.phase = "mounted"
    /\ \E i \in 1..Len(au.inflight) :
         LET resp == au.inflight[i]
             next == authHandleSubmitSettled(au, token, resp.kind)
         IN  /\ resp.op # "me" /\ resp.stage = "resp"
             /\ au' = [next.st EXCEPT !.inflight = RemoveAt(au.inflight, i)]
             /\ token' = next.token
    /\ UNCHANGED AuRest

NextAuth ==
    \/ AuMount
    \/ AuServe
    \/ AuCheckSettles
    \/ AuToggleSignup
    \/ AuType
    \/ AuSubmit
    \/ AuSubmitSettles

SpecAuth == InitAuth /\ [][NextAuth]_vars

(***************************************************************************)
(* What the render offers (timeline tab).                                  *)
(***************************************************************************)
\* neither "Loading..." nor "Run not found", and the timeline tab is selected
TimelineRendered ==
    phase = "mounted" /\ ~loading /\ ~run.isNull /\ activeTab = "timeline"

\* "Full Browser Session Recording" banner with the Open in Laminar link
laminarBanner(r) ==
    ~r.isNull /\ Terminal(r.status) /\ TruthyStr(r.laminar_trace_id)

\* the <video> element seekToTimestamp drives
videoPlayer(r) ==
    /\ ~r.isNull /\ Terminal(r.status)
    /\ TruthyStr(r.video_path)
    /\ ~TruthyStr(r.laminar_trace_id)

\* events.length === 0 ? "No events yet" : groupEventsByStep(run.events).map(...)
timelineSteps(r) ==
    IF Len(r.events) = 0 THEN <<>> ELSE groupEventsByStep(r.events)

stepReplayControl_VideoFirst(r, step) ==
    IF step.videoTimestamp # UndefNum /\ ~r.isNull /\ Terminal(r.status)
    THEN IF TruthyStr(r.video_path) THEN "seek_button"
         ELSE IF TruthyStr(r.laminar_trace_id) THEN "laminar_link"
         ELSE "none"
    ELSE "none"

stepReplayControl_NoStatusGuard(r, step) ==
    IF step.videoTimestamp # UndefNum /\ ~r.isNull
    THEN IF TruthyStr(r.laminar_trace_id) THEN "laminar_link"
         ELSE IF TruthyStr(r.video_path) THEN "seek_button"
         ELSE "none"
    ELSE "none"

\* the "Watch Replay" control in the header of a step
stepReplayControl(r, step) ==
    IF step.videoTimestamp # UndefNum /\ ~r.isNull /\ Terminal(r.status)
    THEN IF TruthyStr(r.laminar_trace_id) THEN "laminar_link"
         ELSE IF TruthyStr(r.video_path) THEN "seek_button"
         ELSE "none"
    ELSE "none"

ShownSteps == IF TimelineRendered THEN timelineSteps(run) ELSE <<>>
StepControls == {stepReplayControl(run, ShownSteps[i]) : i \in 1..Len(ShownSteps)}
BannerOffered == TimelineRendered /\ laminarBanner(run)
PlayerOffered == TimelineRendered /\ videoPlayer(run)

HeldRunning == ~run.isNull /\ run.status = "running"
HeldTerminal == ~run.isNull /\ Terminal(run.status)

(***************************************************************************)
(* Run Client: status, events, side effects.                               *)
(***************************************************************************)
\* C1: the held status is forward-only: once the run held by the view is
\* completed or failed, no later step (REST response in any arrival order,
\* or stream message) leaves the view holding a run that is not terminal.
C1_StatusForwardOnly == [][HeldTerminal => HeldTerminal']_vars

\* C2: the scroll-to-top of the completion effect is performed exactly
\* once: it is done by the step that takes the held status from running to
\* completed/failed, by no other step (not by a hydration that is already
\* terminal), and never a second time.
C2_ScrollExactlyOnce ==
    [][/\ (HeldRunning /\ HeldTerminal' => scrollTops' = scrollTops + 1)
       /\ (scrollTops' # scrollTops => HeldRunning /\ HeldTerminal')
       /\ scrollTops' <= 1]_vars

\* C3: no step rolls back an event of the client's list: every event held
\* before the step (in particular before a poll response is applied) is
\* still held after it.
C3_PollKeepsEvents ==
    [][~run.isNull =>
         \A i \in 1..Len(run.events) :
            \E j \in 1..Len(run'.events) : run'.events[j] = run.events[i]]_vars

\* C4: no backend event is held twice in the client's event list, whichever
\* of the REST response and the stream message delivered it first.
C4_NoDuplicateEvents ==
    \A i, j \in 1..Len(run.events) :
        i # j => run.events[i].id # run.events[j].id

(***************************************************************************)
(* Step Reconstructor (SpecGroup).                                         *)
(***************************************************************************)
\* the event the loop is about to process, and the group of number n
CurrentEvent == gInput[gIdx + 1]
groupOf(steps, n) == steps[stepsIdx(steps, n)]
OtherGroupsKept(n) ==
    \A i \in 1..Len(gAcc.steps) :
        gAcc.steps[i].stepNumber # n =>
            \E j \in 1..Len(gAcc'.steps) : gAcc'.steps[j] = gAcc.steps[i]

\* C5: a step_reasoning or action event whose payload carries step_number n
\* is attributed to StepGroup n for every n, n = 0 included, whatever
\* currentStep is: the loop step leaves every other group as it was, group n
\* exists afterwards, an action is the last of group n's actions and a
\* step_reasoning sets group n's reasoning.
C5_PayloadStepNumberWins ==
    [][(gPc = "loop" /\ gIdx' = gIdx + 1
        /\ CurrentEvent.type \in {"step_reasoning", "action"}
        /\ CurrentEvent.payload.step_number # UndefNum) =>
         LET e == CurrentEvent
             n == e.payload.step_number
         IN  /\ stepsHas(gAcc'.steps, n)
             /\ OtherGroupsKept(n)
             /\ e.type = "action" =>
                  LET a == groupOf(gAcc'.steps, n).actions
                  IN  a # <<>> /\ a[Len(a)] = e
             /\ e.type = "step_reasoning" =>
                  groupOf(gAcc'.steps, n).reasoning.present]_vars

\* the reasoning a step_reasoning event is attributed to, before and after
ReasoningBefore(n) ==
    IF stepsHas(gAcc.steps, n) THEN groupOf(gAcc.steps, n).reasoning ELSE NoReasoning
MergedField(old, new) == IF new # Undef THEN new ELSE old

\* C6: a later step_reasoning event is merged into the group's reasoning:
\* each of evaluation, memory, next_goal present in the payload overwrites
\* the stored value, each absent field keeps the value stored before
\* (a memory set by a legacy event included).
C6_ReasoningMerged ==
    [][(gPc = "loop" /\ gIdx' = gIdx + 1 /\ CurrentEvent.type = "step_reasoning") =>
         LET n == gAcc'.currentStep
             old == ReasoningBefore(n)
             new == groupOf(gAcc'.steps, n).reasoning
             p == CurrentEvent.payload
         IN  /\ new.evaluation = MergedField(old.evaluation, p.evaluation)
             /\ new.memory = MergedField(old.memory, p.memory)
             /\ new.next_goal = MergedField(old.next_goal, p.next_goal)]_vars

\* C6 (amended): a step_reasoning event replaces the group's reasoning as a
\* whole: afterwards evaluation, memory and next_goal are exactly the
\* payload's, so a field absent from the payload is unset whatever was
\* stored before (a memory set by a legacy event included).
C6_ReasoningReplaced ==
    [][(gPc = "loop" /\ gIdx' = gIdx + 1 /\ CurrentEvent.type = "step_reasoning") =>
         LET n == gAcc'.currentStep
             new == groupOf(gAcc'.steps, n).reasoning
             p == CurrentEvent.payload
         IN  /\ new.present
             /\ new.evaluation = p.evaluation
             /\ new.memory = p.memory
             /\ new.next_goal = p.next_goal]_vars

\* a group whose memory came from a legacy event has just received a
\* step_reasoning without memory
C6_Witness ==
    /\ gPc = "loop" /\ gIdx = 2
    /\ gInput[1].type = "reasoning" /\ gInput[1].payload.content = "c1"
    /\ gInput[2].type = "step_reasoning" /\ gInput[2].payload.memory = Undef
    /\ gInput[2].payload.evaluation = "e1"
    /\ groupOf(gAcc.steps, 0).reasoning.memory = Undef
    /\ groupOf(gAcc.steps, 0).reasoning.evaluation = "e1"

(***************************************************************************)
(* Replay Locator and teardown (Spec).                                     *)
(***************************************************************************)
StepsWithVideoTs ==
    {i \in 1..Len(ShownSteps) : ShownSteps[i].videoTimestamp # UndefNum}
HasTrace == TruthyStr(run.laminar_trace_id)
HasVideo == TruthyStr(run.video_path)

\* C7: for a step with a defined videoTimestamp on a terminal run: with a
\* laminar_trace_id the Laminar link is offered and no local seek (no seek
\* button, no video player), also when video_path is set; with a video_path
\* and no laminar_trace_id the seek button is offered together with the
\* player it seeks; with neither, no replay control is offered.
C7_ReplaySelection ==
    (TimelineRendered /\ HeldTerminal) =>
        \A i \in StepsWithVideoTs :
            LET c == stepReplayControl(run, ShownSteps[i])
            IN  /\ HasTrace => c = "laminar_link" /\ ~PlayerOffered
                /\ (~HasTrace /\ HasVideo) => c = "seek_button" /\ PlayerOffered
                /\ (~HasTrace /\ ~HasVideo) =>
                     c = "none" /\ ~PlayerOffered /\ ~BannerOffered

\* a terminal run with both replay fields set shows a step that has a
\* video timestamp
C7_Witness ==
    /\ TimelineRendered /\ HeldTerminal
    /\ HasTrace /\ HasVideo
    /\ StepsWithVideoTs # {}
    /\ "laminar_link" \in StepControls

\* C8: a replay control (Laminar banner, per-step Laminar link, video
\* player, per-step seek button) is offered only if the held status is
\* completed or failed.
C8_ReplayOnlyWhenTerminal ==
    (BannerOffered \/ PlayerOffered \/ StepControls \ {"none"} # {}) => HeldTerminal

\* the view holds a running run that carries a trace id and shows a step
\* with a video timestamp, and offers no replay control
C8_Witness ==
    /\ TimelineRendered /\ HeldRunning
    /\ HasTrace
    /\ StepsWithVideoTs # {}
    /\ ~BannerOffered /\ ~PlayerOffered /\ StepControls = {"none"}

\* C9: the poll timer is active exactly while the view is mounted and holds
\* a running run (so not before hydration, not once the held status is
\* terminal, not after unmount), and no request of fetchRun is issued in a
\* state whose held status is terminal.
C9_PollOnlyWhileRunning ==
    /\ [](pollTimer <=> (phase = "mounted" /\ HeldRunning))
    /\ [][Len(inflight') > Len(inflight) => ~HeldTerminal]_vars

\* the timer was cleared by the transition to a terminal status
C9_Witness ==
    /\ phase = "mounted" /\ HeldTerminal
    /\ scrollTops = 1
    /\ ~pollTimer

\* C10: the stream connection and the poll interval are both torn down as
\* soon as the view is unmounted or holds a terminal status, and from then
\* on no stream message changes the run state.
C10_TornDownAtTerminalOrUnmount ==
    /\ []((phase = "unmounted" \/ HeldTerminal) => (ws # "open" /\ ~pollTimer))
    /\ [][(phase = "unmounted" \/ HeldTerminal) /\ wsQueue' # wsQueue /\ ws' = ws
            => run' = run]_vars

(***************************************************************************)
(* Step Reconstructor: outcome of the call (SpecGroup).                    *)
(***************************************************************************)
\* C13: groupEventsByStep has no error outcome: whatever the event list
\* (payload missing, fields missing, any JSON value appended by the stream
\* handler), the call returns and never raises.
C13_NeverRaises == gPc # "raised"

\* currentStep when the loop reaches the k-th event, and the step number
\* the k-th event is attributed to
currentStepBefore(k) == foldEvents(EmptyAcc, SubSeq(gInput, 1, k - 1)).currentStep
AttributedStep(k) == resolveStepNum(gInput[k], currentStepBefore(k))
AttributedSteps == {AttributedStep(k) : k \in 1..Len(gInput)}

\* C18: the returned list is strictly ascending by stepNumber (so no two
\* groups share a stepNumber) and holds a group for exactly the step
\* numbers to which at least one event was attributed.
C18_SortedOnePerStep ==
    gPc = "done" =>
        /\ \A i \in 1..Len(gResult) - 1 :
              gResult[i].stepNumber < gResult[i + 1].stepNumber
        /\ {gResult[i].stepNumber : i \in 1..Len(gResult)} = AttributedSteps

\* the groups were created in descending order of step number
C18_Witness ==
    /\ gPc = "done"
    /\ Len(gAcc.steps) = 2
    /\ gAcc.steps[1].stepNumber > gAcc.steps[2].stepNumber
    /\ Len(gResult) = 2

\* the action events of the input attributed to step n, in arrival order
ActionsOfStep(n) ==
    SelectSeq(gInput, LAMBDA e : e.type = "action" /\ AttributedStep(e.id) = n)

\* C19: each returned group's actions are exactly the action events
\* attributed to its step, in arrival order, and every action event of the
\* input occurs exactly once over all groups.
C19_ActionsInArrivalOrder ==
    gPc = "done" =>
        /\ \A i \in 1..Len(gResult) :
              gResult[i].actions = ActionsOfStep(gResult[i].stepNumber)
        /\ \A k \in 1..Len(gInput) :
              gInput[k].type = "action" =>
                Cardinality({<<i, j>> \in (1..Len(gResult)) \X (1..Len(gInput)) :
                               /\ j <= Len(gResult[i].actions)
                               /\ gResult[i].actions[j] = gInput[k]}) = 1

\* a group that received two actions
C19_Witness ==
    /\ gPc = "done"
    /\ \E i \in 1..Len(gResult) :
          /\ Len(gResult[i].actions) = 2
          /\ gResult[i].actions[1].id < gResult[i].actions[2].id

\* no step_start, no step_reasoning, no action carrying a step_number
NoStepMarkers ==
    \A k \in 1..Len(gInput) :
        /\ gInput[k].type \notin {"step_start", "step_reasoning"}
        /\ gInput[k].type = "action" => gInput[k].payload.step_number = UndefNum
NonReasoningEvents == SelectSeq(gInput, LAMBDA e : e.type # "reasoning")
OneGroupZero ==
    /\ Len(gResult) = 1
    /\ gResult[1].stepNumber = 0
    /\ gResult[1].actions = NonReasoningEvents

\* C20: for any event list without step markers the call returns exactly
\* one StepGroup, with stepNumber 0, whose actions are all the
\* non-reasoning events of the list.
C20_OneGroupWithoutMarkers == (gPc = "done" /\ NoStepMarkers) => OneGroupZero

\* C20 (amended): the same for any non-empty event list without step
\* markers.
C20_OneGroupWithoutMarkersNonEmpty ==
    (gPc = "done" /\ NoStepMarkers /\ gInput # <<>>) => OneGroupZero

\* a legacy event and an action without step number were grouped
C20_Witness ==
    /\ gPc = "done" /\ NoStepMarkers
    /\ Len(gInput) = 2
    /\ gInput[1].type = "reasoning" /\ gInput[2].type = "action"
    /\ Len(gResult) = 1 /\ Len(gResult[1].actions) = 1


(***************************************************************************)
(* Run Client: failures of the run fetch.                                  *)
(***************************************************************************)
\* the step is the settling of a run fetch whose response was of kind k
Settles(k) ==
    \E i \in 1..Len(inflight) :
        /\ inflight[i].stage = "resp"
        /\ inflight[i].kind = k
        /\ inflight' = RemoveAt(inflight, i)

FailedSettle == Settles("500") \/ Settles("neterr")

\* C12: whenever a run fetch (initial or poll) is answered 401, the step
\* that handles the answer redirects to sign-in, leaves no session token in
\* local storage and does not modify the held run.
C12_AuthFailureUniform ==
    [][Settles("401") => (redirected' /\ ~token' /\ run' = run)]_vars

\* C15: recovery from a failed run fetch needs no reload: as long as the
\* view is mounted with a token, was not redirected and does not hold a
\* terminal run, a request is in flight or the poll timer is armed (also
\* after the initial fetch failed).
C15_AttemptAlwaysPending ==
    (phase = "mounted" /\ token /\ ~redirected /\ ~HeldTerminal)
        => (pollTimer \/ inflight # <<>>)

\* C15 (amended): a failed run fetch (non-OK other than 401, or network
\* error) leaves the held run and the poll timer as they were: while a
\* running run is held the timer stays armed for the next poll; when no run
\* is held (the initial fetch failed) no timer is armed.
C15_FailedFetchKeepsStateAndTimer ==
    [][FailedSettle =>
         /\ run' = run
         /\ pollTimer' = pollTimer
         /\ ((phase = "mounted" /\ HeldRunning) => pollTimer')
         /\ (run.isNull => ~pollTimer')]_vars

\* the initial fetch failed, the backend run finished, and nothing is left
\* that would issue another request
C15_Witness ==
    /\ phase = "mounted" /\ token /\ ~redirected
    /\ run.isNull /\ ~loading
    /\ inflight = <<>> /\ ~pollTimer
    /\ Terminal(backend.status)

\* C16: when the initial run fetch fails with anything but 401, the view
\* stays without a run: the failing step holds no run, arms no timer and
\* redirects nowhere; until a fetch succeeds no step (stream messages
\* included) makes the view hold a run, and nothing of a run is rendered.
C16_InitialFailureStaysLoading ==
    /\ [][(run.isNull /\ FailedSettle) =>
            (run'.isNull /\ redirected' = redirected /\ ~pollTimer')]_vars
    /\ [][(run.isNull /\ ~Settles("ok")) => run'.isNull]_vars
    /\ [](run.isNull =>
            (ShownSteps = <<>> /\ ~BannerOffered /\ ~PlayerOffered))

\* the initial fetch failed and an event relayed on the open stream
\* meanwhile was consumed without being shown
C16_Witness ==
    /\ phase = "mounted" /\ token /\ ~redirected
    /\ run.isNull /\ ~loading
    /\ ws = "open" /\ wsQueue = <<>>
    /\ Len(backend.events) > 0
    /\ inflight = <<>>


(***************************************************************************)
(* Run Client: frames of the stream (SpecStream).                          *)
(***************************************************************************)
\* the step is ws.onmessage handling the oldest frame not yet delivered
Delivers ==
    /\ ws = "open" /\ ws' = "open"
    /\ wsQueue # <<>>
    /\ wsQueue' = Tail(wsQueue)

\* C11: a stream message that is not an Event is dropped: the step that
\* delivers it changes nothing of the held run and leaves the connection
\* open; a well-formed message delivered while a run is held is appended
\* at the end of the run's events, whatever was dropped before it.
C11_MalformedDropped ==
    [][Delivers =>
         IF Head(wsQueue).json # "event"
         THEN run' = run
         ELSE (phase = "mounted" /\ ~run.isNull) =>
                 run' = [run EXCEPT !.events = Append(@, Head(wsQueue))]]_vars


(***************************************************************************)
(* Run Client: the stream fails, polling goes on (SpecLive).               *)
(***************************************************************************)
\* C14: in a view that stays mounted with a valid token and whose requests
\* are answered OK again and again, whenever a running run is held and the
\* backend run is terminal, the view eventually holds a terminal status for
\* good, whether the socket is open, closed or silent; the step closing the
\* socket changes neither the held run, nor the timer, nor the requests in
\* flight, and a closed socket is never opened again.
C14_StreamFailureDegradesToPolling ==
    /\ [](HeldRunning /\ Terminal(backend.status) => <>[]HeldTerminal)
    /\ [][(ws = "open" /\ ws' = "closed") =>
            (run' = run /\ pollTimer' = pollTimer /\ inflight' = inflight)]_vars
    /\ [][ws = "closed" => ws' = "closed"]_vars

\* the socket closed and the poller alone brought the terminal status:
\* the view went from running to terminal without holding any event of the
\* stream
C14_Witness ==
    /\ phase = "mounted" /\ ws = "closed"
    /\ HeldTerminal /\ scrollTops = 1
    /\ ~pollTimer /\ inflight = <<>>


(***************************************************************************)
(* Step Reconstructor: empty input, video offsets, legacy events,          *)
(* currentStep (SpecGroup).                                                *)
(***************************************************************************)
\* C21: on the empty event list the call returns, and returns the empty
\* StepGroup list.
C21_EmptyInEmptyOut ==
    gInput = <<>> => (gPc # "raised" /\ (gPc = "done" => gResult = <<>>))

C21_Witness == gPc = "done" /\ gInput = <<>> /\ gIdx = 0

\* positions of the events attributed to step n, and the first of them
PositionsOfStep(n) == {k \in 1..Len(gInput) : AttributedStep(k) = n}
Creator(n) == CHOOSE k \in PositionsOfStep(n) : \A j \in PositionsOfStep(n) : k <= j

\* the video_timestamp of the first event, in arrival order, among the
\* positions K that carries one; undefined when none does
FirstVideoTimestamp(K) ==
    LET D == {k \in K : gInput[k].video_timestamp # UndefNum}
    IN  IF D = {} THEN UndefNum
        ELSE gInput[CHOOSE k \in D : \A j \in D : k <= j].video_timestamp

\* the events that can give a group its videoTimestamp: the one that
\* created the group, and every later event other than a step_start
Backfilling(n) ==
    {k \in PositionsOfStep(n) : k = Creator(n) \/ gInput[k].type # "step_start"}

\* C22: each returned group's videoTimestamp is that of the earliest event
\* attributed to the step (of any type) that carries a video_timestamp,
\* and is undefined exactly when no event of the step carries one.
C22_EarliestVideoTimestamp ==
    gPc = "done" =>
        \A i \in 1..Len(gResult) :
            gResult[i].videoTimestamp =
                FirstVideoTimestamp(PositionsOfStep(gResult[i].stepNumber))

\* C22 (amended): each returned group's videoTimestamp is that of the
\* earliest event carrying a video_timestamp among the event that created
\* the group and the later step_reasoning, action and legacy events of the
\* step; a step_start that finds its group existing contributes nothing.
C22_EarliestBackfilledVideoTimestamp ==
    gPc = "done" =>
        \A i \in 1..Len(gResult) :
            gResult[i].videoTimestamp =
                FirstVideoTimestamp(Backfilling(gResult[i].stepNumber))

\* a group created without a video offset was backfilled by a later event
C22_Witness ==
    /\ gPc = "done"
    /\ \E i \in 1..Len(gResult) :
          /\ gResult[i].videoTimestamp # UndefNum
          /\ gInput[Creator(gResult[i].stepNumber)].video_timestamp = UndefNum


\* the step is one iteration of the loop, on a legacy event
LegacyStep ==
    /\ gPc = "loop" /\ gIdx' = gIdx + 1
    /\ CurrentEvent.type \notin {"step_start", "step_reasoning", "action"}

\* the actions of the group of step n in the map (none when it has no group)
ActionsIn(steps, n) ==
    IF stepsHas(steps, n) THEN groupOf(steps, n).actions ELSE <<>>

LoopStepOn(t) == gPc = "loop" /\ gIdx' = gIdx + 1 /\ CurrentEvent.type = t

\* the last step_start, step_reasoning or action event among the first k
LastMarker(k) ==
    LET M == {j \in 1..k : gInput[j].type \in {"step_start", "step_reasoning", "action"}}
    IN  IF M = {} THEN 0 ELSE CHOOSE j \in M : \A i \in M : i <= j

\* C28: currentStep is 0 until the first step_start, step_reasoning or
\* action event and then the step number the latest of them resolved to
\* (the group it went to); an action carrying a non-zero step_number n
\* moves currentStep to n, an event without step number of its own that
\* follows goes to the group of currentStep, and a legacy event leaves
\* currentStep as it was.
C28_CurrentStepFollowsMarkers ==
    /\ [](gPc \in {"loop", "done"} =>
            IF LastMarker(gIdx) = 0 THEN gAcc.currentStep = 0
            ELSE LET e == gInput[LastMarker(gIdx)]
                     n == gAcc.currentStep
                 IN  /\ stepsHas(gAcc.steps, n)
                     /\ e.payload.step_number > 0 => n = e.payload.step_number
                     /\ e.type = "action" =>
                          \E j \in 1..Len(groupOf(gAcc.steps, n).actions) :
                              groupOf(gAcc.steps, n).actions[j] = e)
    /\ [][(LoopStepOn("action") /\ CurrentEvent.payload.step_number > 0) =>
            gAcc'.currentStep = CurrentEvent.payload.step_number]_vars
    /\ [][((LoopStepOn("action") \/ LoopStepOn("step_reasoning"))
            /\ CurrentEvent.payload.step_number = UndefNum) =>
            /\ gAcc'.currentStep = gAcc.currentStep
            /\ OtherGroupsKept(gAcc.currentStep)
            /\ stepsHas(gAcc'.steps, gAcc.currentStep)]_vars
    /\ [][LegacyStep => gAcc'.currentStep = gAcc.currentStep]_vars

\* an action carrying step_number 1 moved currentStep, and the action
\* without step number after it went to step 1 as well
C28_Witness ==
    /\ gPc = "done" /\ Len(gInput) = 2
    /\ gInput[1].type = "action" /\ gInput[1].payload.step_number = 1
    /\ gInput[2].type = "action" /\ gInput[2].payload.step_number = UndefNum
    /\ Len(gResult) = 1
    /\ gResult[1].stepNumber = 1
    /\ Len(gResult[1].actions) = 2


(***************************************************************************)
(* Replay link (SpecUrl).                                                  *)
(***************************************************************************)
\* the renderings of a value of c hundredths to one decimal place: the
\* tenths n nearest to it (both neighbours when it lies halfway)
OneDecimal(c) ==
    {Decimal(n \div 10) \o "." \o DigitChar(n % 10) :
        n \in {m \in 0..(c \div 10 + 1) : 10 * m - c <= 5 /\ c - 10 * m <= 5}}

\* C24: the returned url is base + "/shared/traces/" + traceId, followed
\* by nothing when no timestamp is given and by "?t=" and the timestamp to
\* one decimal place when one is; for base https://laminar.sh, trace id
\* abc123 and timestamp 12.34 it is
\* https://laminar.sh/shared/traces/abc123?t=12.3.
C24_LaminarUrlFormat ==
    lam.pc = "done" =>
        LET base == IF lam.env \in {Undef, ""} THEN "https://laminar.sh" ELSE lam.env
            path == base \o "/shared/traces/" \o lam.traceId
        IN  /\ IF lam.timestamp = UndefNum THEN lam.url = path
               ELSE \E d \in OneDecimal(lam.timestamp) : lam.url = path \o "?t=" \o d
            /\ (lam.env = Undef /\ lam.traceId = "abc123" /\ lam.timestamp = 1234) =>
                  lam.url = "https://laminar.sh/shared/traces/abc123?t=12.3"

C24_Witness ==
    /\ lam.pc = "done"
    /\ lam.timestamp = 1234
    /\ lam.url = "https://laminar.sh/shared/traces/abc123?t=12.3"


(***************************************************************************)
(* API keys page (SpecKeys).                                               *)
(***************************************************************************)
\* the step handles the successful answer of a create request carrying key k
CreateAnswered(k) ==
    \E i \in 1..Len(ak.inflight) :
        /\ ak.inflight[i] = [AkRequest("create", k) EXCEPT
                                !.stage = "resp", !.kind = "ok",
                                !.hasProject = ak.hasProject]
        /\ Len(ak'.inflight) <= Len(ak.inflight)

\* C25: a plaintext key comes to be held only by the step that handles a
\* successful create response, and it is that response's key; a held key
\* goes away only by the user's dismissal or by the next created key; a
\* key held is one the backend listed never before its creation and whose
\* banner was never dismissed, so no refresh, failed create, delete or form
\* operation shows a plaintext again.
C25_PlaintextShownOnce ==
    /\ [][(ak.newKey' # ak.newKey /\ ak.newKey' # NullKey) =>
            CreateAnswered(ak.newKey')]_vars
    /\ [][(ak.newKey # NullKey /\ ak.newKey' = NullKey) =>
            (AkBanner /\ ak'.dismissed = ak.dismissed \cup {ak.newKey})]_vars
    /\ [](ak.phase # "idle" => ak.newKey \notin ak.dismissed)
    /\ [](AkBanner => ak.newKey \in 1..(ak.nextKey - 1))

\* a banner was dismissed and the list was refreshed afterwards, the
\* dismissed key being listed, with no plaintext held
C25_Witness ==
    /\ ak.phase = "mounted" /\ ~ak.loading
    /\ ak.newKey = NullKey
    /\ ak.dismissed # {}
    /\ ak.dismissed \subseteq ak.keys
    /\ ak.inflight = <<>>


(***************************************************************************)
(* Demo form (SpecCta).                                                    *)
(***************************************************************************)
\* C26: two visitors making the same inputs see the same thing at every
\* moment, whatever the two waitlist tables hold: after submitting an
\* email that is registered for one and new for the other, and after
\* "Add another email", form, input, error line and button are the same.
C26_NoDisclosure ==
    cta.phase = "mounted" => FooterView(cta.L) = FooterView(cta.R)


(***************************************************************************)
(* Run Client: stream messages before the first fetch is applied (Spec).   *)
(***************************************************************************)
\* C27: the delivery of a stream message while no run is held changes
\* nothing but the socket's queue (the message is neither applied nor kept
\* for later); the events a view holds when it first holds a run are
\* exactly those of the REST response applied by that step.
C27_NotBufferedBeforeHydration ==
    /\ [][(run.isNull /\ Delivers) =>
            /\ run' = run
            /\ <<loading, pollTimer, prevStatusRef, scrollTops, inflight>>' =
                 <<loading, pollTimer, prevStatusRef, scrollTops, inflight>>]_vars
    /\ [][(run.isNull /\ ~run'.isNull) =>
            \E i \in 1..Len(inflight) :
                /\ inflight[i].stage = "resp" /\ inflight[i].kind = "ok"
                /\ run' = inflight[i].body]_vars

\* the initial fetch is still out, the backend's event was relayed on the
\* open socket and consumed, and the view holds nothing
C27_Witness ==
    /\ phase = "mounted" /\ ws = "open"
    /\ run.isNull /\ loading
    /\ inflight # <<>>
    /\ Len(backend.events) > 0
    /\ wsQueue = <<>>

(***************************************************************************)
(* C29: deleting a project needs its name typed in its own dialog.         *)
(***************************************************************************)
\* the step sends a DELETE request
PpDeleteSent ==
    /\ Len(pp'.inflight) = Len(pp.inflight) + 1
    /\ pp'.inflight[Len(pp'.inflight)].op = "delete"

\* the step is the rest of handleDeleteProject after a failed DELETE
PpDeleteFailed ==
    \E i \in 1..Len(pp.inflight) :
        /\ pp.inflight[i].op = "delete"
        /\ pp.inflight[i].stage = "resp"
        /\ pp.inflight[i].kind = "fail"
        /\ pp'.inflight = RemoveAt(pp.inflight, i)

\* C29: a DELETE request for a project is sent only when that project is the
\* one selected for deletion and the confirmation text, typed in that
\* project's dialog, equals its name exactly; opening the dialog empties the
\* confirmation text; a failed DELETE leaves the dialog and the list as they
\* were and resets the deleting flag.
C29_DeleteNeedsTypedName ==
    [][/\ PpDeleteSent =>
            /\ pp.showDeleteModal
            /\ pp.projectToDelete # NullProject
            /\ pp'.inflight[Len(pp'.inflight)].id = pp.projectToDelete.id
            /\ pp.deleteConfirmation = pp.projectToDelete.name
            /\ pp.typedFor = pp.projectToDelete.id
       /\ (~pp.showDeleteModal /\ pp'.showDeleteModal) =>
            pp'.deleteConfirmation = ""
       /\ PpDeleteFailed =>
            /\ pp'.showDeleteModal = pp.showDeleteModal
            /\ pp'.projectToDelete = pp.projectToDelete
            /\ pp'.deleteConfirmation = pp.deleteConfirmation
            /\ pp'.projects = pp.projects
            /\ ~pp'.isDeleting]_vars

\* a DELETE for the selected project has failed and its answer is about to
\* be handled, the dialog still open
C29_Witness ==
    /\ pp.phase = "mounted" /\ pp.showDeleteModal /\ pp.isDeleting
    /\ \E i \in 1..Len(pp.inflight) :
         /\ pp.inflight[i].op = "delete"
         /\ pp.inflight[i].kind = "fail"
         /\ pp.inflight[i].id = pp.projectToDelete.id

(***************************************************************************)
(* C30: the auth form stores a token only after a success response.        *)
(***************************************************************************)
\* the step is the rest of handleSubmit for an answer of this kind
AuSettled(kind) ==
    \E i \in 1..Len(au.inflight) :
        /\ au.inflight[i].op # "me"
        /\ au.inflight[i].stage = "resp"
        /\ au.inflight[i].kind = kind
        /\ au'.inflight = RemoveAt(au.inflight, i)

\* C30: the token is written to local storage only in the step that handles
\* a success response of a sign-in or sign-up request; when the response is
\* not OK or an error is thrown, the stored token is left as it was, a
\* non-empty error message is set and router.push is not called; after every
\* outcome the submitting flag is false.
C30_TokenOnlyAfterSuccess ==
    [][/\ ((token' /\ ~token) \/ au'.tokenWrites # au.tokenWrites) =>
            AuSettled("ok")
       /\ \A kind \in AuthOutcomes \ {"ok"} :
            AuSettled(kind) =>
                /\ token' = token
                /\ au'.tokenWrites = au.tokenWrites
                /\ au'.error # ""
                /\ ~au'.pushed
                /\ au'.phase = "mounted"
       /\ \A kind \in AuthOutcomes :
            AuSettled(kind) => ~au'.loading]_vars

\* a submission has failed: the error is shown, nothing was stored, the form
\* is still there and can be submitted again
C30_Witness ==
    /\ au.phase = "mounted" /\ ~au.checkingAuth
    /\ au.error # "" /\ ~au.loading
    /\ ~token /\ au.tokenWrites = 0 /\ ~au.pushed

====
